---- MODULE Spec2Model ----
(***************************************************************************)
(* A model of src/app.py: the Flask handlers index (GET /), process        *)
(* (POST /process) and clear_history (POST /clear_history), the three      *)
(* extractors, the shared list explains_history and the scratch files      *)
(* under Uploads/.                                                         *)
(*                                                                         *)
(* A text is a sequence of atoms.  An atom is one code point where the     *)
(* code looks at code points (the two code points of the warning marker,   *)
(* white space) and otherwise an opaque run of non-blank characters.       *)
(* Each worker thread of the server handles one request at a time; a step  *)
(* of a handler is one access to the shared list or to the file system,    *)
(* together with the local computation that follows it.                    *)
(*                                                                         *)
(* Left out: input_lang and the OCR language it selects, summary_length    *)
(* and the wording of the prompt, which only parametrize the library       *)
(* calls, and the page and script of html_code.                            *)
(***************************************************************************)
EXTENDS Integers, Sequences, FiniteSets, TLC

\* ------------------------------------------------------------------ bounds

\* Worker threads of the server.
NumThreads == 2
\* Successful explanations followed between two clears of the history.
MaxLog == 6

Threads == 1..NumThreads

\* ------------------------------------------------------------------- texts

\* The warning marker that starts every failure string: U+26A0 U+FE0F.
Marker == <<"U+26A0", "U+FE0F">>

Whitespace == {" ", "\n"}

RECURSIVE LStrip(_)
LStrip(t) ==
    IF t # <<>> /\ Head(t) \in Whitespace THEN LStrip(Tail(t)) ELSE t

RECURSIVE RStrip(_)
RStrip(t) ==
    IF t # <<>> /\ t[Len(t)] \in Whitespace
    THEN RStrip(SubSeq(t, 1, Len(t) - 1))
    ELSE t

\* str.strip()
Strip(t) == RStrip(LStrip(t))

\* str.startswith(p)
StartsWith(t, p) == Len(t) >= Len(p) /\ SubSeq(t, 1, Len(p)) = p

\* str.lower() on the characters file names are made of here.
LowerChar(c) ==
    CASE c = "A" -> "a"
      [] c = "C" -> "c"
      [] c = "D" -> "d"
      [] c = "O" -> "o"
      [] c = "X" -> "x"
      [] OTHER -> c

Lower(s) == [i \in 1..Len(s) |-> LowerChar(s[i])]

\* str.rfind of one character: the last index holding c, 0 when there is none.
RFind(s, c) ==
    LET I == {i \in 1..Len(s) : s[i] = c}
    IN  IF I = {} THEN 0 ELSE CHOOSE i \in I : \A j \in I : j <= i

\* os.path.splitext(p)[1]: the extension starts at the last dot of the last
\* path component, unless only dots precede it in that component.
SplitExt(p) ==
    LET sep == RFind(p, "/")
        dot == RFind(p, ".")
    IN  IF dot > sep /\ \E k \in (sep + 1)..(dot - 1) : p[k] # "."
        THEN SubSeq(p, dot, Len(p))
        ELSE <<>>

\* "\n".join(parts)
RECURSIVE Join(_)
Join(parts) ==
    IF parts = <<>> THEN <<>>
    ELSE IF Len(parts) = 1 THEN parts[1]
    ELSE parts[1] \o <<"\n">> \o Join(Tail(parts))

\* An optional form field: request.form.get / request.files.get give None
\* for a field the request does not carry.
None == [some |-> FALSE, v |-> <<>>]
Some(x) == [some |-> TRUE, v |-> x]

\* Python's truth value of an optional string (None and "" are false) and
\* of a FileStorage (bool(filename)).
Truthy(o) == o.some /\ o.v # <<>>

\* ------------------------------------------------------------------ inputs

\* The file names uploads carry.  The empty name is what a browser sends
\* when no file was chosen.
Filenames ==
    { <<>>,
      <<"a", ".", "p", "d", "f">>,
      <<"a", ".", "D", "O", "C", "X">>,
      <<"a", ".", "t", "x", "t">>,
      <<"a", ".", "p", "n", "g">>,
      <<"a", ".", "j", "p", "g">>,
      <<"a", ".", "j", "p", "e", "g">>,
      <<"a", ".", "p", "d", "f", ".", "e", "x", "e">>,
      <<"a">>,
      <<".", "p", "d", "f">> }

\* The values of the form field text_input.
PastedTexts ==
    { <<>>, <<" ", "\n">>, <<"report">>, <<" ", "report", "\n">>,
      Marker \o <<"report">>, <<" ">> \o Marker, <<"U+26A0", "report">> }

\* The values of the form field output_lang.
LangValues == { <<>>, <<"Hindi">> }

\* datetime.now().strftime("%Y-%m-%d %H:%M:%S"), as read by a request.
Timestamps == { <<"2025-01-01 10:00:00">> }

Option(S) == {None} \cup {Some(x) : x \in S}

\* The requests POST /process is given: every pasted text without a file,
\* every file name without pasted text and with one, and every value of the
\* language field on one pasted text.
Forms ==
    { f \in [file : Option(Filenames), text_input : Option(PastedTexts),
             output_lang : Option(LangValues)] :
        /\ f.file.some => f.text_input \in {None, Some(<<"report">>)}
        /\ f.output_lang # None =>
              f.file = None /\ f.text_input = Some(<<"report">>) }

\* The requests POST /process is given while other requests are being
\* handled: pasted text, and uploads that share one file name.
ConcurrentForms ==
    { f \in Forms : /\ f.output_lang = None
                    /\ \/ f.file = None /\ f.text_input = Some(<<"report">>)
                       \/ f.file \in {Some(<<"a", ".", "t", "x", "t">>),
                                      Some(<<"a", ".", "p", "d", "f", ".", "e", "x", "e">>)}
                          /\ f.text_input = None }

\* ------------------------------------------------- the libraries' outcomes

\* What a library call does: it returns v, or it raises an exception e
\* with str(e) = v.
Ok(x) == [raises |-> FALSE, v |-> x]
Raise(c) == [raises |-> TRUE, v |-> c]

\* str(e) of the exceptions the libraries raise.
Causes == { <<"cause">> }

\* What the libraries do with one scratch file:
\*   open   the call that opens and parses it: extract_text (v: the
\*          embedded text), docx.Document, Image.open with thumbnail,
\*          open(...).read() (v: the content);
\*   paras  the paragraphs of a parsed DOCX document;
\*   raster convert_from_path(first_page=1, last_page=1), n images;
\*   ocr    pytesseract.image_to_string on an image.
NoRaster == [raises |-> FALSE, v |-> <<>>, n |-> 0]

NoEnv == [open |-> Ok(<<>>), paras |-> <<>>, raster |-> NoRaster, ocr |-> Ok(<<>>)]

Contents == { <<>>, <<" ">>, <<"report">>, Marker \o <<"report">> }

OcrOutcomes == {Ok(<<"scan">>), Ok(<<"\n", " ">>)} \cup {Raise(c) : c \in Causes}

\* An embedded text of white space alone.
Blank == <<" ", "\n">>

PdfEnvs ==
    {[NoEnv EXCEPT !.open = o] : o \in {Ok(<<"report">>)} \cup {Raise(c) : c \in Causes}}
    \cup {[NoEnv EXCEPT !.open = Ok(Blank),
                        !.raster = [raises |-> TRUE, v |-> c, n |-> 0]] : c \in Causes}
    \cup {[NoEnv EXCEPT !.open = Ok(Blank)]}
    \cup {[NoEnv EXCEPT !.open = Ok(Blank), !.raster = [NoRaster EXCEPT !.n = 1],
                        !.ocr = o] : o \in OcrOutcomes}
    \cup {[NoEnv EXCEPT !.open = Ok(<<>>), !.raster = [NoRaster EXCEPT !.n = 1],
                        !.ocr = Ok(<<"scan">>)]}

DocxEnvs ==
    {[NoEnv EXCEPT !.open = Raise(c)] : c \in Causes}
    \cup {[NoEnv EXCEPT !.paras = p] :
            p \in {<<>>, <<<<"report">>>>, <<<<"report">>, <<"more">>>>,
                   <<Marker \o <<"report">>>>}}

ImageEnvs ==
    {[NoEnv EXCEPT !.open = Raise(c)] : c \in Causes}
    \cup {[NoEnv EXCEPT !.ocr = o] : o \in OcrOutcomes}

TxtEnvs ==
    {[NoEnv EXCEPT !.open = o] : o \in {Ok(c) : c \in Contents} \cup {Raise(<<"cause">>)}}

\* What model.generate_content(...) followed by response.text does.
GenOutcomes == {Ok(<<"explanation">>)} \cup {Raise(c) : c \in Causes}

\* ------------------------------------------------------------- extractors

\* f"<marker> <what> {str(e)}"
Failure(what, cause) == Marker \o <<" ", what, " ">> \o cause

\* The loop of extract_pdf_text over the images: each image's text and a
\* newline are added to ocr_text; image_to_string may raise.
RECURSIVE OcrLoop(_, _, _)
OcrLoop(n, ocr, ocr_text) ==
    IF n = 0 THEN Ok(ocr_text)
    ELSE IF ocr.raises THEN ocr
    ELSE OcrLoop(n - 1, ocr, ocr_text \o ocr.v \o <<"\n">>)

\* extract_pdf_text with "if text:" in place of "if text.strip():".
extract_pdf_text_unstripped(env) ==
    IF env.open.raises
    THEN Failure("Error extracting PDF text:", env.open.v)
    ELSE IF env.open.v # <<>> THEN env.open.v
    ELSE IF env.raster.raises
    THEN Failure("Error extracting PDF text:", env.raster.v)
    ELSE LET done == OcrLoop(env.raster.n, env.ocr, <<>>)
         IN  IF done.raises
             THEN Failure("Error extracting PDF text:", done.v)
             ELSE IF Strip(done.v) # <<>> THEN done.v
             ELSE Marker \o <<" ", "No readable text found.">>

extract_pdf_text(env) ==
    IF env.open.raises
    THEN Failure("Error extracting PDF text:", env.open.v)
    ELSE IF Strip(env.open.v) # <<>> THEN env.open.v
    ELSE IF env.raster.raises
    THEN Failure("Error extracting PDF text:", env.raster.v)
    ELSE LET done == OcrLoop(env.raster.n, env.ocr, <<>>)
         IN  IF done.raises
             THEN Failure("Error extracting PDF text:", done.v)
             ELSE IF Strip(done.v) # <<>> THEN done.v
             ELSE Marker \o <<" ", "No readable text found.">>

\* The library calls extract_pdf_text makes, in order.
PdfCalls(env) ==
    <<"extract_text">>
    \o (IF ~env.open.raises /\ Strip(env.open.v) = <<>>
        THEN <<"convert_from_path">>
             \o (IF ~env.raster.raises
                 THEN [i \in 1..(IF env.ocr.raises /\ env.raster.n > 0
                                 THEN 1 ELSE env.raster.n) |-> "image_to_string"]
                 ELSE <<>>)
        ELSE <<>>)

extract_docx_text(env) ==
    IF env.open.raises
    THEN Failure("Error extracting DOCX:", env.open.v)
    ELSE Join(env.paras)

extract_image_text(env) ==
    IF env.open.raises THEN Failure("OCR error:", env.open.v)
    ELSE IF env.ocr.raises THEN Failure("OCR error:", env.ocr.v)
    ELSE IF Strip(env.ocr.v) # <<>> THEN env.ocr.v
    ELSE Marker \o <<" ", "OCR did not detect any text.">>

\* ------------------------------------------------------------------ state

VARIABLES
    explains_history,  \* the process-wide list of explanation records
    fs,                \* the scratch directory: path -> 0 (no such file) or
                       \* the thread whose save wrote the file
    log,               \* history variable: the records of the explanations
                       \* the Explainer returned since the last clear
    pc,                \* each thread's place in its handler
    handler,           \* the handler each thread runs
    form,              \* process: the request's form fields
    timestamp,         \* process: timestamp
    extracted_text,    \* process: extracted_text
    explanation,       \* process: explanation
    error_msg,         \* process: error_msg
    exc,               \* process: an exception is propagating
    env,               \* history variable: what the libraries did with the
                       \* scratch file during the extraction
    calls,             \* history variable: the calls this request made
    prompts,           \* history variable: the texts this request sent to
                       \* the Explainer
    resp               \* what the request returned to the HTTP layer

vars == <<explains_history, fs, log, pc, handler, form, timestamp,
          extracted_text, explanation, error_msg, exc, env, calls, prompts,
          resp>>

locals == <<form, timestamp, extracted_text, explanation, error_msg, exc,
            env, calls, prompts>>

valid_extensions ==
    { <<".", "p", "d", "f">>, <<".", "d", "o", "c", "x">>,
      <<".", "t", "x", "t">>, <<".", "p", "n", "g">>,
      <<".", "j", "p", "g">>, <<".", "j", "p", "e", "g">> }

\* os.path.splitext(uploaded_file.filename)[1].lower()
file_ext(f) == Lower(SplitExt(f.file.v))

\* os.path.join("Uploads", uploaded_file.filename)
file_path(f) == <<"Uploads", "/">> \o f.file.v

Paths == { file_path([file |-> Some(n)]) :
             n \in {m \in Filenames : Lower(SplitExt(m)) \in valid_extensions} }

\* request.form.get("output_lang") or "English"
output_lang(f) ==
    IF Truthy(f.output_lang) THEN f.output_lang.v ELSE <<"English">>

NoForm == [file |-> None, text_input |-> None, output_lang |-> None]

NoResp == [status |-> "none", explanation |-> <<>>, error_msg |-> <<>>,
           explains_history |-> <<>>]

\* An exception left the handler: the HTTP layer answers 500.
Fault == [NoResp EXCEPT !.status = "fault"]

Init ==
    /\ explains_history = <<>>
    /\ fs = [p \in Paths |-> 0]
    /\ log = <<>>
    /\ pc = [r \in Threads |-> "idle"]
    /\ handler = [r \in Threads |-> "none"]
    /\ form = [r \in Threads |-> NoForm]
    /\ timestamp = [r \in Threads |-> <<>>]
    /\ extracted_text = [r \in Threads |-> <<>>]
    /\ explanation = [r \in Threads |-> <<>>]
    /\ error_msg = [r \in Threads |-> <<>>]
    /\ exc = [r \in Threads |-> FALSE]
    /\ env = [r \in Threads |-> NoEnv]
    /\ calls = [r \in Threads |-> <<>>]
    /\ prompts = [r \in Threads |-> <<>>]
    /\ resp = [r \in Threads |-> NoResp]

\* ---------------------------------------------------------------- process

\* Route with "if text_input" in place of "elif text_input".
RoutePastedFirst(f) ==
    IF Truthy(f.text_input)
    THEN [pc |-> "check", error_msg |-> <<>>, extracted_text |-> f.text_input.v]
    ELSE IF Truthy(f.file) /\ file_ext(f) \notin valid_extensions
    THEN [pc |-> "check",
          error_msg |-> Failure("Unsupported file type:", file_ext(f)),
          extracted_text |-> <<>>]
    ELSE IF Truthy(f.file)
    THEN [pc |-> "save", error_msg |-> <<>>, extracted_text |-> <<>>]
    ELSE [pc |-> "check", error_msg |-> <<>>, extracted_text |-> <<>>]

\* Lines 77-94: where the request goes after its fields are read, and what
\* error_msg and extracted_text hold there.
Route(f) ==
    IF Truthy(f.file)
    THEN IF file_ext(f) \notin valid_extensions
         THEN [pc |-> "check",
               error_msg |-> Failure("Unsupported file type:", file_ext(f)),
               extracted_text |-> <<>>]
         ELSE [pc |-> "save", error_msg |-> <<>>, extracted_text |-> <<>>]
    ELSE IF Truthy(f.text_input)
         THEN [pc |-> "check", error_msg |-> <<>>,
               extracted_text |-> f.text_input.v]
         ELSE [pc |-> "check", error_msg |-> <<>>, extracted_text |-> <<>>]

\* Lines 61-84 and 93-94: the request's fields are read.
BeginProcess(r, requests) ==
    /\ pc[r] = "idle"
    /\ Len(log) < MaxLog
    /\ \E f \in requests, ts \in Timestamps :
         LET to == Route(f)
         IN  /\ form' = [form EXCEPT ![r] = f]
             /\ timestamp' = [timestamp EXCEPT ![r] = ts]
             /\ error_msg' = [error_msg EXCEPT ![r] = to.error_msg]
             /\ extracted_text' = [extracted_text EXCEPT ![r] = to.extracted_text]
             /\ pc' = [pc EXCEPT ![r] = to.pc]
    /\ handler' = [handler EXCEPT ![r] = "process"]
    /\ explanation' = [explanation EXCEPT ![r] = <<>>]
    /\ resp' = [resp EXCEPT ![r] = NoResp]
    /\ UNCHANGED <<explains_history, fs, log, exc, env, calls, prompts>>

\* Line 86, uploaded_file.save(file_path): the file is written, or the save
\* raises before or after it created the file.
SaveOutcomes == {"saved", "failed", "failed_partial"}

Save(r) ==
    /\ pc[r] = "save"
    /\ \E o \in SaveOutcomes :
         /\ fs' = IF o = "failed" THEN fs
                  ELSE [fs EXCEPT ![file_path(form[r])] = r]
         /\ exc' = [exc EXCEPT ![r] = (o # "saved")]
         /\ pc' = [pc EXCEPT ![r] = IF o = "saved" THEN "extract" ELSE "exists"]
    /\ calls' = [calls EXCEPT ![r] = Append(@, "save")]
    /\ UNCHANGED <<explains_history, log, handler, form, timestamp,
                   extracted_text, explanation, error_msg, env, prompts, resp>>

Extractor(ext) ==
    CASE ext = <<".", "p", "d", "f">> -> "extract_pdf_text"
      [] ext = <<".", "d", "o", "c", "x">> -> "extract_docx_text"
      [] ext = <<".", "t", "x", "t">> -> "read"
      [] OTHER -> "extract_image_text"

EnvsOf(extractor) ==
    CASE extractor = "extract_pdf_text" -> PdfEnvs
      [] extractor = "extract_docx_text" -> DocxEnvs
      [] extractor = "read" -> TxtEnvs
      [] OTHER -> ImageEnvs

\* Lines 87-90: the extractor of the extension runs on the scratch file.  It
\* gives the text, or raises (only the plain read does).
Extracted(extractor, e) ==
    CASE extractor = "extract_pdf_text" -> Ok(extract_pdf_text(e))
      [] extractor = "extract_docx_text" -> Ok(extract_docx_text(e))
      [] extractor = "read" -> e.open
      [] OTHER -> Ok(extract_image_text(e))

\* The library calls an extractor makes, in order.
LibraryCalls(extractor, e) ==
    CASE extractor = "extract_pdf_text" -> PdfCalls(e)
      [] extractor = "extract_docx_text" -> <<"docx.Document">>
      [] extractor = "read" -> <<"open">>
      [] OTHER -> <<"Image.open">>
                  \o (IF e.open.raises THEN <<>> ELSE <<"image_to_string">>)

Extract(r) ==
    /\ pc[r] = "extract"
    /\ LET x == Extractor(file_ext(form[r]))
       IN  \E e \in EnvsOf(x) :
             \* a file that is gone cannot be opened
             /\ fs[file_path(form[r])] = 0 => e.open.raises
             /\ env' = [env EXCEPT ![r] = e]
             /\ calls' = [calls EXCEPT ![r] = Append(@, x) \o LibraryCalls(x, e)]
             /\ LET got == Extracted(x, e)
                IN  /\ exc' = [exc EXCEPT ![r] = got.raises]
                    /\ extracted_text' =
                         [extracted_text EXCEPT ![r] = IF got.raises THEN @ ELSE got.v]
    /\ pc' = [pc EXCEPT ![r] = "exists"]
    /\ UNCHANGED <<explains_history, fs, log, handler, form, timestamp,
                   explanation, error_msg, prompts, resp>>

\* The end of the finally block: a propagating exception leaves the handler.
AfterFinally(r, raised) ==
    /\ exc' = [exc EXCEPT ![r] = raised]
    /\ env' = [env EXCEPT ![r] = NoEnv]
    /\ pc' = [pc EXCEPT ![r] = IF raised THEN "done" ELSE "check"]
    /\ resp' = [resp EXCEPT ![r] = IF raised THEN Fault ELSE @]

\* The removal after the try block instead of in its finally block: a
\* propagating exception skips it.
ExistsUnlessRaised(r) ==
    /\ pc[r] = "exists"
    /\ IF fs[file_path(form[r])] # 0 /\ ~exc[r]
       THEN /\ pc' = [pc EXCEPT ![r] = "remove"]
            /\ UNCHANGED <<exc, env, resp>>
       ELSE AfterFinally(r, exc[r])
    /\ UNCHANGED <<explains_history, fs, log, handler, form, timestamp,
                   extracted_text, explanation, error_msg, calls, prompts>>

\* Line 92, the test os.path.exists(file_path).
Exists(r) ==
    /\ pc[r] = "exists"
    /\ IF fs[file_path(form[r])] # 0
       THEN /\ pc' = [pc EXCEPT ![r] = "remove"]
            /\ UNCHANGED <<exc, env, resp>>
       ELSE AfterFinally(r, exc[r])
    /\ UNCHANGED <<explains_history, fs, log, handler, form, timestamp,
                   extracted_text, explanation, error_msg, calls, prompts>>

\* Line 92, os.remove(file_path): it raises when the file is gone.
Remove(r) ==
    /\ pc[r] = "remove"
    /\ LET p == file_path(form[r])
       IN  IF fs[p] # 0
           THEN /\ fs' = [fs EXCEPT ![p] = 0]
                /\ AfterFinally(r, exc[r])
           ELSE /\ fs' = fs
                /\ AfterFinally(r, TRUE)
    /\ calls' = [calls EXCEPT ![r] = Append(@, "remove")]
    /\ UNCHANGED <<explains_history, log, handler, form, timestamp,
                   extracted_text, explanation, error_msg, prompts>>

\* Line 96 without the test of extracted_text.strip().
ShouldExplainUnstripped(text) == ~StartsWith(text, Marker)

\* Line 96
ShouldExplain(text) == Strip(text) # <<>> /\ ~StartsWith(text, Marker)

\* Line 118
IsSentinel(text) == StartsWith(text, Marker)

\* Lines 110-114
Record(r) ==
    [timestamp |-> timestamp[r], explanation |-> explanation[r],
     language |-> output_lang(form[r])]

\* Lines 96-109 and 116-119: the Explainer is called on a text to explain,
\* a failure string becomes error_msg.
Check(r) ==
    /\ pc[r] = "check"
    /\ IF ShouldExplain(extracted_text[r])
       THEN \E g \in GenOutcomes :
              /\ prompts' = [prompts EXCEPT ![r] = Append(@, extracted_text[r])]
              /\ calls' = [calls EXCEPT ![r] = Append(@, "generate_content")]
              /\ IF g.raises
                 THEN /\ error_msg' = [error_msg EXCEPT ![r] =
                                         Failure("Explanation error:", g.v)]
                      /\ pc' = [pc EXCEPT ![r] = "respond"]
                      /\ UNCHANGED <<explanation, log>>
                 ELSE /\ explanation' = [explanation EXCEPT ![r] = g.v]
                      /\ log' = Append(log, [Record(r) EXCEPT !.explanation = g.v])
                      /\ pc' = [pc EXCEPT ![r] = "append"]
                      /\ UNCHANGED error_msg
       ELSE /\ error_msg' = [error_msg EXCEPT ![r] =
                               IF IsSentinel(extracted_text[r])
                               THEN extracted_text[r] ELSE @]
            /\ pc' = [pc EXCEPT ![r] = "respond"]
            /\ UNCHANGED <<explanation, log, prompts, calls>>
    /\ UNCHANGED <<explains_history, fs, handler, form, timestamp,
                   extracted_text, exc, env, resp>>

\* Lines 110-114, explains_history.append(...)
AppendRecord(r) ==
    /\ pc[r] = "append"
    /\ explains_history' = Append(explains_history, Record(r))
    /\ pc' = [pc EXCEPT ![r] = "len"]
    /\ UNCHANGED <<fs, log, handler, resp>>
    /\ UNCHANGED locals

\* Line 115, the test len(explains_history) > 5
Overfull(h) == Len(h) > 5

LenCheck(r) ==
    /\ pc[r] = "len"
    /\ pc' = [pc EXCEPT ![r] = IF Overfull(explains_history) THEN "pop" ELSE "respond"]
    /\ UNCHANGED <<explains_history, fs, log, handler, resp>>
    /\ UNCHANGED locals

\* list.pop() in place of list.pop(0).
PopLast(h) == SubSeq(h, 1, Len(h) - 1)

\* list.pop(0)
Pop0(h) == Tail(h)

\* Line 115, explains_history.pop(0): on an empty list it raises IndexError,
\* which line 116 catches.
Pop(r) ==
    /\ pc[r] = "pop"
    /\ IF explains_history # <<>>
       THEN /\ explains_history' = Pop0(explains_history)
            /\ UNCHANGED error_msg
       ELSE /\ error_msg' = [error_msg EXCEPT ![r] =
                               Failure("Explanation error:", <<"pop from empty list">>)]
            /\ UNCHANGED explains_history
    /\ pc' = [pc EXCEPT ![r] = "respond"]
    /\ UNCHANGED <<fs, log, handler, form, timestamp, extracted_text,
                   explanation, exc, env, calls, prompts, resp>>

\* Lines 121-125, jsonify: the list is read as it is now.
Respond(r) ==
    /\ pc[r] = "respond"
    /\ resp' = [resp EXCEPT ![r] =
                  [status |-> "json", explanation |-> explanation[r],
                   error_msg |-> error_msg[r],
                   explains_history |-> explains_history]]
    /\ pc' = [pc EXCEPT ![r] = "done"]
    /\ UNCHANGED <<explains_history, fs, log, handler>>
    /\ UNCHANGED locals

\* ---------------------------------------------------------- clear_history

\* Line 129, explains_history.clear()
Clear(r) ==
    /\ pc[r] = "idle"
    /\ handler' = [handler EXCEPT ![r] = "clear_history"]
    /\ explains_history' = <<>>
    /\ log' = <<>>
    /\ pc' = [pc EXCEPT ![r] = "clear_respond"]
    /\ UNCHANGED <<fs, resp>>
    /\ UNCHANGED locals

\* Line 130, jsonify
ClearRespond(r) ==
    /\ pc[r] = "clear_respond"
    /\ resp' = [resp EXCEPT ![r] =
                  [NoResp EXCEPT !.status = "json",
                                 !.explains_history = explains_history]]
    /\ pc' = [pc EXCEPT ![r] = "done"]
    /\ UNCHANGED <<explains_history, fs, log, handler>>
    /\ UNCHANGED locals

\* ------------------------------------------------------------------ index

\* Line 57: the page is rendered with the list as it is now.
Index(r) ==
    /\ pc[r] = "idle"
    /\ handler' = [handler EXCEPT ![r] = "index"]
    /\ resp' = [resp EXCEPT ![r] =
                  [NoResp EXCEPT !.status = "html",
                                 !.explains_history = explains_history]]
    /\ pc' = [pc EXCEPT ![r] = "done"]
    /\ UNCHANGED <<explains_history, fs, log>>
    /\ UNCHANGED locals

\* ------------------------------------------------------------- the server

\* The response is sent and the thread takes the next request.
Return(r) ==
    /\ pc[r] = "done"
    /\ pc' = [pc EXCEPT ![r] = "idle"]
    /\ handler' = [handler EXCEPT ![r] = "none"]
    /\ form' = [form EXCEPT ![r] = NoForm]
    /\ timestamp' = [timestamp EXCEPT ![r] = <<>>]
    /\ extracted_text' = [extracted_text EXCEPT ![r] = <<>>]
    /\ explanation' = [explanation EXCEPT ![r] = <<>>]
    /\ error_msg' = [error_msg EXCEPT ![r] = <<>>]
    /\ exc' = [exc EXCEPT ![r] = FALSE]
    /\ env' = [env EXCEPT ![r] = NoEnv]
    /\ calls' = [calls EXCEPT ![r] = <<>>]
    /\ prompts' = [prompts EXCEPT ![r] = <<>>]
    /\ resp' = [resp EXCEPT ![r] = NoResp]
    /\ UNCHANGED <<explains_history, fs, log>>

Step(r) ==
    \/ Save(r) \/ Extract(r) \/ Exists(r) \/ Remove(r) \/ Check(r)
    \/ AppendRecord(r) \/ LenCheck(r) \/ Pop(r) \/ Respond(r)
    \/ ClearRespond(r) \/ Return(r)

\* Requests are handled concurrently, one per thread.
Next ==
    \E r \in Threads :
        \/ BeginProcess(r, ConcurrentForms) \/ Clear(r) \/ Index(r)
        \/ Step(r)

Spec == Init /\ [][Next]_vars

\* Requests are handled one at a time.
AllIdle == \A q \in Threads : pc[q] = "idle"

BeginSeq(r) ==
    /\ AllIdle
    /\ (BeginProcess(r, Forms) \/ Clear(r) \/ Index(r))

NextSeq == \E r \in Threads : BeginSeq(r) \/ Step(r)

SeqSpec == Init /\ [][NextSeq]_vars

\* ------------------------------------------------------------------ claims

\* A text with a character that is not white space.
NonBlank(t) == \E i \in 1..Len(t) : t[i] \notin Whitespace

\* The last n elements of s, all of s when it has fewer.
LastN(n, s) == IF Len(s) <= n THEN s ELSE SubSeq(s, Len(s) - n + 1, Len(s))

Answered(r) == pc[r] = "done" /\ handler[r] = "process"

HasUpload(f) == Truthy(f.file)

Supported(f) == HasUpload(f) /\ Lower(SplitExt(f.file.v)) \in valid_extensions

Unsupported(f) == HasUpload(f) /\ Lower(SplitExt(f.file.v)) \notin valid_extensions

\* C1: with requests handled one at a time, the history a POST /process or
\* POST /clear_history response carries is the last min(5, n) of the n
\* explanations made since the last clear, oldest first: never more than 5,
\* the 6th evicts the oldest, and after a clear it is empty.
HistoryIsRecentLog ==
    \A r \in Threads :
        (pc[r] = "done" /\ resp[r].status = "json") =>
            LET h == resp[r].explains_history
            IN  /\ h = LastN(5, log)
                /\ Len(h) <= 5
                /\ handler[r] = "clear_history" => h = <<>>

\* The 6th explanation since the last clear was answered with the other 5
\* and itself, the evicted record being different from the oldest kept.
SixthEvictsOldest ==
    \E r \in Threads :
        /\ Answered(r)
        /\ Len(log) = 6
        /\ resp[r].explains_history = SubSeq(log, 2, 6)
        /\ log[1] # log[2]

\* C2: once a POST /process with a file of a supported extension has ended,
\* returning or raising, its scratch file does not exist.
ScratchFileAbsentAtEnd ==
    \A r \in Threads :
        (Answered(r) /\ Supported(form[r])) => fs[file_path(form[r])] = 0

\* A request ended by the exception its extraction raised, after it had
\* saved and then removed its scratch file.
RaisedAfterCleanup ==
    \E r \in Threads :
        /\ Answered(r)
        /\ resp[r] = Fault
        /\ calls[r] = <<"save", "read", "open", "remove">>
        /\ fs[file_path(form[r])] = 0

\* C3: every POST /process ends by returning the JSON payload, a failure
\* being a string in error_msg that starts with the warning marker; no
\* exception reaches the HTTP layer.
EveryProcessReturnsJson ==
    \A r \in Threads :
        Answered(r) =>
            /\ resp[r].status = "json"
            /\ resp[r].error_msg # <<>> => StartsWith(resp[r].error_msg, Marker)

\* C4: no response of POST /process carries both an explanation and an
\* error message, under every interleaving of requests.
ExplanationOrError ==
    \A r \in Threads :
        (Answered(r) /\ resp[r].status = "json") =>
            ~(resp[r].explanation # <<>> /\ resp[r].error_msg # <<>>)

\* C5: no step of a POST /process whose upload has an extension outside the
\* supported ones changes the history or the scratch directory or calls
\* save, an extractor, a library or the Explainer, pasted text or not; and
\* it returns error_msg = "<marker> Unsupported file type: <ext>" with an
\* empty explanation.
UnsupportedShortCircuits ==
    [][\A r \in Threads :
          (pc'[r] # pc[r] /\ handler'[r] = "process" /\ Unsupported(form'[r])) =>
              /\ explains_history' = explains_history
              /\ fs' = fs
              /\ calls'[r] = <<>>
              /\ prompts'[r] = <<>>
              /\ pc'[r] = "done" =>
                    /\ resp'[r].status = "json"
                    /\ resp'[r].explanation = <<>>
                    /\ resp'[r].error_msg =
                         Marker \o <<" ", "Unsupported file type:", " ">>
                                \o Lower(SplitExt(form'[r].file.v))]_vars

\* An upload named a.pdf.exe that came with pasted text was answered with
\* the unsupported-type error.
UnsupportedAnswered ==
    \E r \in Threads :
        /\ Answered(r)
        /\ form[r].file = Some(<<"a", ".", "p", "d", "f", ".", "e", "x", "e">>)
        /\ form[r].text_input = Some(<<"report">>)
        /\ resp[r].error_msg =
             Marker \o <<" ", "Unsupported file type:", " ", ".", "e", "x", "e">>

\* The thread has run extract_pdf_text and is in the finally block.
AfterPdfExtraction(r) ==
    /\ pc[r] \in {"exists", "remove"}
    /\ Len(calls[r]) >= 2
    /\ calls[r][2] = "extract_pdf_text"

\* C6: extract_pdf_text returns the embedded text when it is not blank,
\* without rasterizing or OCR; otherwise it rasterizes page 1 and returns
\* what OCR read of it (each image's text and a newline) when that is not
\* blank, and the failure "No readable text found." when it is; a step that
\* raises gives the failure "Error extracting PDF text: <cause>", and no
\* exception leaves the extractor.
PdfFallbackOrder ==
    \A r \in Threads :
        AfterPdfExtraction(r) =>
            LET e == env[r]
                t == extracted_text[r]
                libs == SubSeq(calls[r], 3, Len(calls[r]))
                error == Marker \o <<" ", "Error extracting PDF text:", " ">>
            IN  /\ ~exc[r]
                /\ e.open.raises => t = error \o e.open.v /\ libs = <<"extract_text">>
                /\ (~e.open.raises /\ NonBlank(e.open.v)) =>
                      t = e.open.v /\ libs = <<"extract_text">>
                /\ (~e.open.raises /\ ~NonBlank(e.open.v)) =>
                      /\ SubSeq(libs, 1, 2) = <<"extract_text", "convert_from_path">>
                      /\ e.raster.raises => t = error \o e.raster.v /\ Len(libs) = 2
                      /\ (~e.raster.raises /\ e.raster.n = 0) =>
                            t = Marker \o <<" ", "No readable text found.">>
                      /\ (~e.raster.raises /\ e.raster.n = 1) =>
                            /\ libs = <<"extract_text", "convert_from_path",
                                        "image_to_string">>
                            /\ e.ocr.raises => t = error \o e.ocr.v
                            /\ (~e.ocr.raises /\ NonBlank(e.ocr.v)) =>
                                  t = e.ocr.v \o <<"\n">>
                            /\ (~e.ocr.raises /\ ~NonBlank(e.ocr.v)) =>
                                  t = Marker \o <<" ", "No readable text found.">>

\* A PDF whose embedded text is blank was rasterized and its OCR text
\* returned.
PdfOcrFallbackTaken ==
    \E r \in Threads :
        /\ AfterPdfExtraction(r)
        /\ env[r].open = Ok(Blank)
        /\ env[r].raster.n = 1
        /\ env[r].ocr = Ok(<<"scan">>)
        /\ extracted_text[r] = <<"scan", "\n">>

\* No file, or the empty file part of a form whose file field was left
\* empty, and no pasted text.
EmptySubmission(f) == ~HasUpload(f) /\ ~Truthy(f.text_input)

\* C7: no step of a POST /process with no file and with text_input absent
\* or empty changes the history or calls the Explainer, and it returns an
\* empty explanation and an empty error_msg.
EmptySubmissionIsNoOp ==
    [][\A r \in Threads :
          (pc'[r] # pc[r] /\ handler'[r] = "process" /\ EmptySubmission(form'[r])) =>
              /\ explains_history' = explains_history
              /\ prompts'[r] = <<>>
              /\ "generate_content" \notin {calls'[r][i] : i \in 1..Len(calls'[r])}
              /\ pc'[r] = "done" =>
                    /\ resp'[r].status = "json"
                    /\ resp'[r].explanation = <<>>
                    /\ resp'[r].error_msg = <<>>
                    /\ resp'[r].explains_history = explains_history]_vars

\* A request with an empty text_input and no file was answered while the
\* history held records.
EmptySubmissionAnswered ==
    \E r \in Threads :
        /\ Answered(r)
        /\ form[r].file = None
        /\ form[r].text_input = Some(<<>>)
        /\ resp[r].status = "json"
        /\ resp[r].explains_history # <<>>

\* C8: under every interleaving of requests, no response and no rendered
\* page carries more than 5 history records, and the eviction of a request
\* never fails.
HistoryBoundedForAll ==
    \A r \in Threads :
        /\ resp[r].status \in {"json", "html"} => Len(resp[r].explains_history) <= 5
        /\ error_msg[r] # Marker \o <<" ", "Explanation error:", " ",
                                      "pop from empty list">>

\* C9: no request overwrites or removes the scratch file another request
\* has saved and has not yet extracted from.
ScratchFileExclusive ==
    [][\A q \in Threads :
          (pc[q] = "extract" /\ pc'[q] = "extract"
              /\ fs[file_path(form[q])] = q) =>
                  fs'[file_path(form[q])] = q]_vars

\* C10: a POST /process with pasted text and no file never returns the
\* pasted text as error_msg: error_msg is empty or an "Explanation error:"
\* message, and a pasted text that is not blank is sent to the Explainer
\* exactly once.
PastedTextNeverAnError ==
    \A r \in Threads :
        (Answered(r) /\ ~form[r].file.some /\ Truthy(form[r].text_input)) =>
            LET t == form[r].text_input.v
            IN  /\ resp[r].status = "json"
                /\ resp[r].error_msg # t
                /\ \/ resp[r].error_msg = <<>>
                   \/ StartsWith(resp[r].error_msg,
                                 Marker \o <<" ", "Explanation error:", " ">>)
                /\ NonBlank(t) => prompts[r] = <<t>>

====
